---- MODULE Spec2Model ----
(***************************************************************************)
(* strawberry.experimental.pydantic.object_type: the adapter that turns a  *)
(* pydantic model into a strawberry type, input or interface.              *)
(*                                                                         *)
(* State: the two class-level registration attributes of every pydantic    *)
(* model, the classes produced so far, and the outcome of the last call.   *)
(* Operations: type(model, ...)(cls), input(model, ...)(cls),              *)
(* interface(model, ...)(cls) and the type walk replace_pydantic_types.    *)
(***************************************************************************)
EXTENDS Integers, Sequences, FiniteSets, TLC

VARIABLES
    strawberry_type,        \* model -> class id in model.__dict__ (0 = not set)
    strawberry_input_type,  \* model -> class id in model.__dict__ (0 = not set)
    classes,                \* produced classes in creation order; id = index
    last                    \* the most recent call: its inputs and its result

vars == <<strawberry_type, strawberry_input_type, classes, last>>

----------------------------------------------------------------------------
(* Bounds *)

MaxClasses == 2     \* classes produced by successful applications
MaxDecls == 1       \* members declared on a decorated class
MaxDepth == 1       \* nesting depth of the types handed to the type walk

----------------------------------------------------------------------------
(* Type annotations, as terms.  t[1] is the constructor.                   *)

Raise(exc) == <<"raise", exc>>
IsRaise(t) == t[1] = "raise"

\* typing.Optional[t]; Optional[Optional[t]] is Optional[t]
OptionalOf(t) == IF t[1] = "optional" THEN t ELSE <<"optional", t>>

\* the type a decorated class declares for its own members
DeclaredType == <<"bool">>
auto == <<"auto">>

----------------------------------------------------------------------------
(* The pydantic models of the schema under construction.                   *)

Models == {"Empty", "Inner", "SubInner", "Outer"}
\* the names a decorated class declares or a `fields` list mentions: "f" is a
\* field of every model but Empty, "x" is a field of no model
Names == {"f", "x"}
NameOrder == <<"f", "x">>

\* class SubInner(Inner); every other model derives from BaseModel directly
Parent(m) == IF m = "SubInner" THEN "Inner" ELSE "BaseModel"

ModelField(name, outer, required, has_alias, alias, description) ==
    [name |-> name, outer_type_ |-> outer, required |-> required,
     has_alias |-> has_alias, alias |-> alias, description |-> description]


\* model.__fields__, in definition order
model_fields(m) ==
    CASE m = "Empty" -> << >>
      [] m = "Inner" ->
            << ModelField("f", <<"int">>, TRUE, FALSE, "f", "None"),
               ModelField("g", <<"literal", <<"int">>>>, FALSE, TRUE, "gAlias", "the g") >>
      [] m = "SubInner" ->
            << ModelField("f", <<"int">>, TRUE, FALSE, "f", "None"),
               ModelField("g", <<"unsupported">>, FALSE, TRUE, "gAlias", "the g") >>
      [] m = "Outer" ->
            << ModelField("f", <<"model", "Inner">>, TRUE, TRUE, "fAlias", "None"),
               ModelField("g", <<"list", <<"model", "SubInner">>>>, FALSE, FALSE, "g", "subs") >>

FieldNames(m) == {model_fields(m)[i].name : i \in 1..Len(model_fields(m))}

----------------------------------------------------------------------------
(* The decorated class: a set of declared members, each one of             *)
(*   name: auto                                  ("auto")                  *)
(*   name: bool                                  ("concrete")              *)
(*   name: strawberry.Private[bool]              ("private")               *)
(*   name: bool = strawberry.field(resolver=fn)  ("resolver")              *)

Kinds == {"auto", "concrete", "private", "resolver"}

Decls == [name : Names, kind : Kinds]

\* the classes with at most n declared members, no name declared twice
RECURSIVE ClassesUpTo(_)
ClassesUpTo(n) ==
    IF n = 0 THEN {{}}
    ELSE LET S == ClassesUpTo(n - 1)
             Extend(c) == {c \cup {d} :
                            d \in {e \in Decls : \A o \in c : o.name # e.name}}
         IN  S \cup UNION {Extend(c) : c \in S}

ClassDecls == ClassesUpTo(MaxDecls)

\* the deprecated `fields` argument: absent, or naming one field
FieldsLists == {{}} \cup {{n} : n \in Names}

DeclOf(cls, n) == CHOOSE d \in cls : d.name = n

AnnotationOf(d) ==
    CASE d.kind = "auto" -> auto
      [] d.kind = "concrete" -> DeclaredType
      [] d.kind = "private" -> <<"private", DeclaredType>>
      [] d.kind = "resolver" -> DeclaredType

\* getattr(cls, "__annotations__", {})
existing_annotations(cls) ==
    [n \in {d.name : d \in cls} |-> AnnotationOf(DeclOf(cls, n))]

\* the strawberry field a declared member becomes in the wrapped dataclass
UserField(d) ==
    [origin |-> "user", python_name |-> d.name, graphql_name |-> "None",
     default |-> IF d.kind = "resolver" THEN "field" ELSE "MISSING",
     has_default |-> d.kind = "resolver",
     type |-> AnnotationOf(d), description |-> "user",
     base_resolver |-> d.kind = "resolver"]

DeclSeq(cls, kept) ==
    LET present(n) == \E d \in cls : d.name = n /\ d.kind \in kept
        names == SelectSeq(NameOrder, present)
    IN  [i \in 1..Len(names) |-> UserField(DeclOf(cls, names[i]))]

\* _get_fields(wrapped): the strawberry fields of the class, private ones left out
get_fields(cls) ==
    DeclSeq(cls, Kinds \ {"private"})

\* get_private_fields(wrapped)
get_private_fields(cls) ==
    DeclSeq(cls, {"private"})

----------------------------------------------------------------------------
(* Registration attributes as Python sees them.                            *)

OwnAttr(m, is_input) ==
    IF is_input THEN strawberry_input_type[m] ELSE strawberry_type[m]

\* getattr(type_, attr, <absent>): the class's own attribute, else the one
\* inherited along the MRO; 0 when hasattr(type_, attr) is False
RECURSIVE class_getattr(_, _)
class_getattr(m, is_input) ==
    IF m = "BaseModel" THEN 0
    ELSE IF OwnAttr(m, is_input) # 0 THEN OwnAttr(m, is_input)
    ELSE class_getattr(Parent(m), is_input)

----------------------------------------------------------------------------
(* The type walk.                                                          *)

HasArgs(t) == t[1] \in {"list", "optional", "dict"}
Args(t) == SubSeq(t, 2, Len(t))
\* type_.copy_with(args)
copy_with(t, args) == <<t[1]>> \o args

FirstRaise(args) ==
    args[CHOOSE i \in 1..Len(args) :
            /\ IsRaise(args[i])
            /\ \A j \in 1..(i - 1) : ~IsRaise(args[j])]

RECURSIVE replace_descending_into_literal(_, _)
replace_descending_into_literal(type_, is_input) ==
    IF HasArgs(type_) \/ type_[1] = "literal" THEN
        LET args == [i \in 1..(Len(type_) - 1) |->
                        replace_descending_into_literal(type_[i + 1], is_input)]
        IN  IF \E i \in 1..Len(args) : IsRaise(args[i])
            THEN FirstRaise(args)
            ELSE copy_with(type_, args)
    ELSE IF type_[1] = "model" THEN
        IF class_getattr(type_[2], is_input) # 0
        THEN <<"strawberry", class_getattr(type_[2], is_input)>>
        ELSE Raise("UnregisteredTypeException")
    ELSE type_

RECURSIVE replace_pydantic_types(_, _)
replace_pydantic_types(type_, is_input) ==
    IF type_[1] = "literal" THEN type_
    ELSE IF HasArgs(type_) THEN
        LET args == [i \in 1..Len(Args(type_)) |->
                        replace_pydantic_types(Args(type_)[i], is_input)]
        IN  IF \E i \in 1..Len(args) : IsRaise(args[i])
            THEN FirstRaise(args)
            ELSE copy_with(type_, args)
    ELSE IF type_[1] = "model" THEN
        IF class_getattr(type_[2], is_input) # 0
        THEN <<"strawberry", class_getattr(type_[2], is_input)>>
        ELSE Raise("UnregisteredTypeException")
    ELSE type_

\* strawberry.experimental.pydantic.fields.get_basic_type: an unsupported
\* field type raises, any other type is mapped to itself
get_basic_type(type_) ==
    IF type_ = <<"unsupported">> THEN Raise("UnsupportedTypeError") ELSE type_

get_type_for_field_always_optional(field, is_input) ==
    LET basic == get_basic_type(field.outer_type_)
        type_ == IF IsRaise(basic) THEN basic
                 ELSE replace_pydantic_types(basic, is_input)
    IN  IF IsRaise(type_) THEN type_ ELSE OptionalOf(type_)

get_type_for_field(field, is_input) ==
    LET basic == get_basic_type(field.outer_type_)
        type_ == IF IsRaise(basic) THEN basic
                 ELSE replace_pydantic_types(basic, is_input)
    IN  IF IsRaise(type_) THEN type_
        ELSE IF ~field.required THEN OptionalOf(type_)
        ELSE type_

----------------------------------------------------------------------------
(* Field reconciliation.                                                   *)

AnnotatedNames(cls) == DOMAIN existing_annotations(cls)

fields_set_any_annotation(model, fields, all_fields, cls) ==
    IF all_fields THEN FieldNames(model)
    ELSE fields \cup AnnotatedNames(cls)

fields_set_all_fields_adds(model, fields, all_fields, cls) ==
    LET declared == fields \cup
            {n \in AnnotatedNames(cls) : n \in FieldNames(model)}
    IN  IF all_fields THEN declared \cup FieldNames(model) ELSE declared

\* the fields that are copied from the pydantic model
fields_set(model, fields, all_fields, cls) ==
    LET original_fields_set == fields
        declared == original_fields_set \cup
            {n \in AnnotatedNames(cls) : n \in FieldNames(model)}
    IN  IF all_fields THEN FieldNames(model) ELSE declared

auto_fields_set_every_annotation(model, fields, all_fields, cls) ==
    IF all_fields THEN FieldNames(model)
    ELSE fields \cup AnnotatedNames(cls)

\* the fields that copy their type from the pydantic model
auto_fields_set(model, fields, all_fields, cls) ==
    LET original_fields_set == fields
        declared == original_fields_set \cup
            {n \in AnnotatedNames(cls) : existing_annotations(cls)[n] = auto}
    IN  IF all_fields THEN FieldNames(model) ELSE declared

\* utils.ensure_all_auto_fields_in_pydantic: TRUE when it returns, FALSE when
\* it raises because an auto field is not a field of the model
ensure_all_auto_fields_in_pydantic(model, auto_fields) ==
    auto_fields \subseteq FieldNames(model)

DataclassCreationFields(name, type_annotation, field) ==
    [name |-> name, type_annotation |-> type_annotation, field |-> field]

BuiltField(field, type_annotation, graphql_name) ==
    [origin |-> "built", python_name |-> field.name,
     graphql_name |-> graphql_name,
     default |-> "UNSET", has_default |-> ~field.required,
     type |-> type_annotation, description |-> field.description,
     base_resolver |-> FALSE]

FieldTypeAnnotation(field, is_input, existing_fields, auto_fields) ==
    IF field.name \in auto_fields THEN get_type_for_field(field, is_input)
    ELSE IF field.name \in DOMAIN existing_fields
         THEN existing_fields[field.name].type
         ELSE Raise("KeyError")

build_always_aliased(field, is_input, existing_fields, auto_fields) ==
    LET type_annotation ==
            FieldTypeAnnotation(field, is_input, existing_fields, auto_fields)
        strawberry_field ==
            IF /\ field.name \in DOMAIN existing_fields
               /\ existing_fields[field.name].base_resolver
            THEN existing_fields[field.name]
            ELSE BuiltField(field, type_annotation, field.alias)
    IN  DataclassCreationFields(field.name, type_annotation, strawberry_field)

build_dataclass_creation_fields(field, is_input, existing_fields, auto_fields) ==
    LET type_annotation ==
            FieldTypeAnnotation(field, is_input, existing_fields, auto_fields)
        strawberry_field ==
            IF /\ field.name \in DOMAIN existing_fields
               /\ existing_fields[field.name].base_resolver
            THEN existing_fields[field.name]
            ELSE BuiltField(field, type_annotation,
                            IF field.has_alias THEN field.alias ELSE "None")
    IN  DataclassCreationFields(field.name, type_annotation, strawberry_field)

extra_creation_fields_unfiltered(cls, copied) ==
    LET declared == get_fields(cls) \o get_private_fields(cls)
    IN  [i \in 1..Len(declared) |->
            DataclassCreationFields(declared[i].python_name,
                                    declared[i].type, declared[i])]

\* the class's own fields that are not copied from the model
extra_creation_fields(cls, copied) ==
    LET declared == get_fields(cls) \o get_private_fields(cls)
        kept(f) == f.python_name \notin copied
        extra == SelectSeq(declared, kept)
    IN  [i \in 1..Len(extra) |->
            DataclassCreationFields(extra[i].python_name,
                                    extra[i].type, extra[i])]

\* utils.sort_creation_fields: fields without a default go first, the order
\* is otherwise kept
sort_creation_fields(creation_fields) ==
    LET no_default(c) == ~c.field.has_default
        with_default(c) == c.field.has_default
    IN  SelectSeq(creation_fields, no_default)
            \o SelectSeq(creation_fields, with_default)

Failure(outcome, copied, auto_fields) ==
    [outcome |-> outcome, fields_set |-> copied,
     auto_fields_set |-> auto_fields, sorted_fields |-> << >>]

\* the body of wrap(cls) up to dataclass creation
wrap(model, fields, is_input, all_fields, cls) ==
    LET copied == fields_set(model, fields, all_fields, cls)
        auto_fields == auto_fields_set(model, fields, all_fields, cls)
        extra_strawberry_fields == get_fields(cls)
        extra_fields_dict ==
            [n \in {extra_strawberry_fields[i].python_name :
                        i \in 1..Len(extra_strawberry_fields)} |->
                UserField(DeclOf(cls, n))]
        in_fields_set(f) == f.name \in copied
        selected == SelectSeq(model_fields(model), in_fields_set)
        all_model_fields ==
            [i \in 1..Len(selected) |->
                build_dataclass_creation_fields(
                    selected[i], is_input, extra_fields_dict, auto_fields)]
        raising == {i \in 1..Len(selected) :
                        IsRaise(all_model_fields[i].type_annotation)}
        first == CHOOSE i \in raising : \A j \in raising : i <= j
    IN  IF copied = {} THEN
            Failure("MissingFieldsListError", copied, auto_fields)
        ELSE IF ~ensure_all_auto_fields_in_pydantic(model, auto_fields) THEN
            Failure("AutoFieldsNotInBaseModelError", copied, auto_fields)
        ELSE IF raising # {} THEN
            Failure(all_model_fields[first].type_annotation[2],
                    copied, auto_fields)
        ELSE
            [outcome |-> "ok", fields_set |-> copied,
             auto_fields_set |-> auto_fields,
             sorted_fields |->
                sort_creation_fields(
                    all_model_fields \o extra_creation_fields(cls, copied))]

----------------------------------------------------------------------------
(* Registration: lines 247-251 of wrap, reached only when nothing raised.  *)

next_strawberry_type_unconditional(model, is_input, ok, cls_id) ==
    IF ~is_input THEN [strawberry_type EXCEPT ![model] = cls_id]
    ELSE strawberry_type

next_strawberry_type_both(model, is_input, ok, cls_id) ==
    IF ok THEN [strawberry_type EXCEPT ![model] = cls_id]
    ELSE strawberry_type

next_strawberry_type(model, is_input, ok, cls_id) ==
    IF ok /\ ~is_input THEN [strawberry_type EXCEPT ![model] = cls_id]
    ELSE strawberry_type

next_strawberry_input_type(model, is_input, ok, cls_id) ==
    IF ok /\ is_input THEN [strawberry_input_type EXCEPT ![model] = cls_id]
    ELSE strawberry_input_type

\* The class made by dataclasses.make_dataclass and _process_type
NewClass(model, is_input) == [pydantic_type |-> model, is_input |-> is_input]

----------------------------------------------------------------------------
(* Inputs of the type walk.                                                *)

Atoms ==
    {<<"int">>, <<"unsupported">>, <<"literal", <<"model", "Inner">>>>}
        \cup {<<"model", m>> : m \in Models}

DictKeys == {<<"int">>}

RECURSIVE TypesUpTo(_)
TypesUpTo(depth) ==
    IF depth = 0 THEN Atoms
    ELSE LET S == TypesUpTo(depth - 1)
         IN  S \cup {<<"list", t>> : t \in S}
               \cup {OptionalOf(t) : t \in S}
               \cup {<<"dict", k, t>> : k \in DictKeys, t \in S}

WalkTypes == TypesUpTo(MaxDepth)

----------------------------------------------------------------------------
(* The state machine.                                                      *)

NoType == <<"none">>

NoCall ==
    [op |-> "none", model |-> "BaseModel", fields |-> {}, cls |-> {},
     all_fields |-> FALSE, is_input |-> FALSE, outcome |-> "none",
     fields_set |-> {}, auto_fields_set |-> {}, sorted_fields |-> << >>,
     type_in |-> NoType, type_out |-> NoType]

Init ==
    /\ strawberry_type = [m \in Models |-> 0]
    /\ strawberry_input_type = [m \in Models |-> 0]
    /\ classes = << >>
    /\ last = NoCall

\* type(model, fields=..., is_input=..., is_interface=..., all_fields=...)(cls)
Apply(op, model, fields, is_input, all_fields, cls) ==
    /\ last.op = "none"
    /\ Len(classes) < MaxClasses
    /\ \E res \in {wrap(model, fields, is_input, all_fields, cls)} :
       LET ok == res.outcome = "ok"
           cls_id == Len(classes) + 1
       IN  /\ classes' = IF ok THEN Append(classes, NewClass(model, is_input))
                         ELSE classes
           /\ strawberry_type' =
                next_strawberry_type(model, is_input, ok, cls_id)
           /\ strawberry_input_type' =
                next_strawberry_input_type(model, is_input, ok, cls_id)
           /\ last' = [op |-> op, model |-> model, fields |-> fields,
                       cls |-> cls, all_fields |-> all_fields,
                       is_input |-> is_input, outcome |-> res.outcome,
                       fields_set |-> res.fields_set,
                       auto_fields_set |-> res.auto_fields_set,
                       sorted_fields |-> res.sorted_fields,
                       type_in |-> NoType, type_out |-> NoType]

Type(model, fields, all_fields, cls) ==
    Apply("type", model, fields, FALSE, all_fields, cls)

\* input = partial(type, is_input=True)
Input(model, fields, all_fields, cls) ==
    Apply("input", model, fields, TRUE, all_fields, cls)

\* interface = partial(type, is_interface=True)
Interface(model, fields, all_fields, cls) ==
    Apply("interface", model, fields, FALSE, all_fields, cls)

\* a call of replace_pydantic_types(type_, is_input)
Walk(type_, is_input) ==
    /\ last.op = "none"
    /\ last' = [NoCall EXCEPT !.op = "walk", !.is_input = is_input,
                              !.type_in = type_,
                              !.type_out = replace_pydantic_types(type_, is_input)]
    /\ UNCHANGED <<strawberry_type, strawberry_input_type, classes>>

\* the caller takes the result (or the exception) of the call
Return ==
    /\ last.op # "none"
    /\ last' = NoCall
    /\ UNCHANGED <<strawberry_type, strawberry_input_type, classes>>

Next ==
    \/ \E model \in Models, fields \in FieldsLists,
          all_fields \in BOOLEAN, cls \in ClassDecls :
            Type(model, fields, all_fields, cls)
    \/ \E model \in Models, fields \in FieldsLists,
          all_fields \in BOOLEAN, cls \in ClassDecls :
            Input(model, fields, all_fields, cls)
    \/ \E model \in Models, fields \in FieldsLists,
          all_fields \in BOOLEAN, cls \in ClassDecls :
            Interface(model, fields, all_fields, cls)
    \/ \E type_ \in WalkTypes, is_input \in BOOLEAN :
            Walk(type_, is_input)
    \/ Return

Spec == Init /\ [][Next]_vars

----------------------------------------------------------------------------
(* Vocabulary of the properties.                                           *)

IsWrap == last.op \in {"type", "input", "interface"}
Succeeded == IsWrap /\ last.outcome = "ok"

AnnotationNames(cls) == {d.name : d \in cls}

FieldOf(model, n) ==
    model_fields(model)[CHOOSE i \in 1..Len(model_fields(model)) :
                            model_fields(model)[i].name = n]

CreatedNames == {last.sorted_fields[i].name : i \in 1..Len(last.sorted_fields)}

Created(n) ==
    last.sorted_fields[CHOOSE i \in 1..Len(last.sorted_fields) :
                            last.sorted_fields[i].name = n]

\* the field set as the documentation describes it
ResultingFieldSet ==
    IF last.all_fields THEN FieldNames(last.model)
    ELSE last.fields \cup (AnnotationNames(last.cls) \cap FieldNames(last.model))

\* the auto field set as the documentation describes it
DocumentedAutoSet ==
    IF last.all_fields THEN FieldNames(last.model)
    ELSE last.fields \cup {d.name : d \in {e \in last.cls : e.kind = "auto"}}

\* the models a type mentions outside Literal
RECURSIVE ModelsIn(_)
ModelsIn(t) ==
    IF t[1] = "model" THEN {t[2]}
    ELSE IF HasArgs(t) THEN UNION {ModelsIn(t[i]) : i \in 2..Len(t)}
    ELSE {}

\* a type with every model replaced by the schema type Python finds for it
RECURSIVE SubstituteModels(_, _)
SubstituteModels(t, is_input) ==
    IF t[1] = "model" THEN <<"strawberry", class_getattr(t[2], is_input)>>
    ELSE IF HasArgs(t)
         THEN [i \in 1..Len(t) |->
                    IF i = 1 THEN t[1] ELSE SubstituteModels(t[i], is_input)]
         ELSE t

----------------------------------------------------------------------------
\* C1: an application raises MissingFieldsListError exactly when the field
\* set (all model fields under all_fields, else `fields` plus the annotated
\* names that are model fields) is empty; so it is raised for a class that
\* annotates only names absent from the model, and for all_fields on a model
\* without fields.
C1_MissingFieldsIffEmpty ==
    IsWrap =>
        /\ (last.outcome = "MissingFieldsListError") <=> (ResultingFieldSet = {})
        /\ ( /\ ~last.all_fields
             /\ last.fields = {}
             /\ AnnotationNames(last.cls) \cap FieldNames(last.model) = {} )
                => last.outcome = "MissingFieldsListError"
        /\ (last.all_fields /\ FieldNames(last.model) = {})
                => last.outcome = "MissingFieldsListError"

C1_Witness ==
    /\ IsWrap
    /\ last.outcome = "MissingFieldsListError"
    /\ ~last.all_fields
    /\ last.model = "Inner"
    /\ \E d \in last.cls : d.kind = "auto" /\ d.name \notin FieldNames(last.model)

\* C2: when a copied auto field's type mentions, outside Literal, a model
\* that was not itself decorated in the requested mode, the application
\* raises UnregisteredTypeException (unless an earlier check or an earlier
\* field already raised something else).
C2_UnregisteredNestedRaises ==
    IsWrap =>
        \A i \in 1..Len(model_fields(last.model)) :
            LET field == model_fields(last.model)[i] IN
            ( /\ field.name \in last.fields_set
              /\ field.name \in last.auto_fields_set
              /\ \E m \in ModelsIn(field.outer_type_) :
                    OwnAttr(m, last.is_input) = 0 )
            => last.outcome \in {"UnregisteredTypeException",
                                 "MissingFieldsListError",
                                 "AutoFieldsNotInBaseModelError",
                                 "UnsupportedTypeError", "KeyError"}

\* C3 as claimed: a model field the class annotates with a type other than
\* auto always gets the class's declared type.
C3_ExplicitAlwaysWins ==
    Succeeded =>
        \A d \in last.cls :
            (d.kind # "auto" /\ d.name \in FieldNames(last.model))
                => Created(d.name).type_annotation = AnnotationOf(d)

\* C3 as amended: a model field the class annotates with a type other than
\* auto gets the class's declared type when all_fields is False and the name
\* is not in the `fields` list.
C3_ExplicitWinsUnlessListed ==
    Succeeded =>
        \A d \in last.cls :
            ( /\ d.kind # "auto"
              /\ d.name \in FieldNames(last.model)
              /\ ~last.all_fields
              /\ d.name \notin last.fields )
                => Created(d.name).type_annotation = AnnotationOf(d)

C3_Witness ==
    /\ Succeeded
    /\ ~last.all_fields
    /\ \E d \in last.cls :
        /\ d.kind = "concrete"
        /\ d.name \in FieldNames(last.model)
        /\ d.name \notin last.fields
        /\ Created(d.name).type_annotation = DeclaredType

C2_SubclassRegisteredByInheritance ==
    /\ Succeeded
    /\ last.model = "Outer"
    /\ "g" \in last.auto_fields_set
    /\ OwnAttr("SubInner", last.is_input) = 0

\* the class produced by the most recent successful application to model m
\* in the given mode, 0 when there is none
MostRecent(m, is_input) ==
    LET made == {i \in 1..Len(classes) :
                    /\ classes[i].pydantic_type = m
                    /\ classes[i].is_input = is_input}
    IN  IF made = {} THEN 0 ELSE CHOOSE i \in made : \A j \in made : j <= i

RegistrationsAreMostRecent ==
    \A m \in Models :
        /\ strawberry_type[m] = MostRecent(m, FALSE)
        /\ strawberry_input_type[m] = MostRecent(m, TRUE)

ApplicationWritesOneAttribute ==
    (last'.op \in {"type", "input", "interface"} /\ last'.outcome = "ok") =>
        /\ Len(classes') = Len(classes) + 1
        /\ classes'[Len(classes')].pydantic_type = last'.model
        /\ classes'[Len(classes')].is_input = last'.is_input
        /\ IF last'.is_input
           THEN /\ strawberry_input_type'[last'.model] = Len(classes')
                /\ strawberry_type' = strawberry_type
                /\ \A m \in Models \ {last'.model} :
                        strawberry_input_type'[m] = strawberry_input_type[m]
           ELSE /\ strawberry_type'[last'.model] = Len(classes')
                /\ strawberry_input_type' = strawberry_input_type
                /\ \A m \in Models \ {last'.model} :
                        strawberry_type'[m] = strawberry_type[m]

\* C5: each registration attribute of a model holds the class produced by
\* the most recent successful application to it in that mode; a successful
\* application produces one class, whose _pydantic_type is the model, writes
\* the attribute of its mode for that model and changes no other registration.
C5_RegistrationTracksApplications ==
    [](RegistrationsAreMostRecent) /\ [][ApplicationWritesOneAttribute]_vars

C5_Witness ==
    /\ Succeeded
    /\ Len(classes) = 2
    /\ classes[1].pydantic_type = last.model
    /\ classes[1].is_input = last.is_input
    /\ OwnAttr(last.model, last.is_input) = 2
    /\ OwnAttr(last.model, ~last.is_input) = 0

FailureChangesNothing ==
    (last'.op \in {"type", "input", "interface"} /\ last'.outcome # "ok") =>
        UNCHANGED <<strawberry_type, strawberry_input_type, classes>>

OnlyFinishedClassesRegistered ==
    \A m \in Models :
        /\ strawberry_type[m] \in 0..Len(classes)
        /\ strawberry_input_type[m] \in 0..Len(classes)

\* C6: an application that raises leaves both registration attributes of
\* every model as they were, and only finished classes are ever registered.
C6_FailedApplicationRegistersNothing ==
    [](OnlyFinishedClassesRegistered) /\ [][FailureChangesNothing]_vars

C6_Witness ==
    /\ IsWrap
    /\ last.outcome \in {"UnregisteredTypeException", "UnsupportedTypeError",
                         "AutoFieldsNotInBaseModelError", "MissingFieldsListError"}
    /\ OwnAttr(last.model, last.is_input) = 1

\* C7: under all_fields both field sets are exactly the model's field names,
\* whatever `fields` and the class say; the auto-field membership check
\* cannot fail and a successful application creates every model field.
C7_AllFieldsOverrides ==
    (IsWrap /\ last.all_fields) =>
        /\ last.fields_set = FieldNames(last.model)
        /\ last.auto_fields_set = FieldNames(last.model)
        /\ last.outcome # "AutoFieldsNotInBaseModelError"
        /\ last.outcome = "ok" => FieldNames(last.model) \subseteq CreatedNames

C7_Witness ==
    /\ Succeeded
    /\ last.all_fields
    /\ last.fields = {"x"}
    /\ \E d \in last.cls : d.name = "x" /\ d.kind = "auto"

\* C8: the list handed to dataclass creation names each field once: the
\* model fields of the copied set, and the class's own members that are not
\* in the copied set; nothing else.
C8_CreationFieldsOncePerName ==
    Succeeded =>
        /\ \A i, j \in 1..Len(last.sorted_fields) :
                last.sorted_fields[i].name = last.sorted_fields[j].name => i = j
        /\ CreatedNames =
                (FieldNames(last.model) \cap last.fields_set)
                    \cup (AnnotationNames(last.cls) \ last.fields_set)

C8_Witness ==
    /\ Succeeded
    /\ Len(last.sorted_fields) = 2
    /\ \E d \in last.cls : d.name \in last.fields_set

\* C9: a copied model field keeps the user's field when the class declares
\* it with a resolver; otherwise a field is built with the model's alias as
\* GraphQL name exactly when the model field has an alias, default unset,
\* and the model's description.
C9_CopiedFieldDescriptor ==
    Succeeded =>
        \A n \in FieldNames(last.model) \cap last.fields_set :
            LET field == FieldOf(last.model, n)
                made == Created(n).field
            IN  IF \E d \in last.cls : d.name = n /\ d.kind = "resolver"
                THEN made = UserField(DeclOf(last.cls, n))
                ELSE /\ made.origin = "built"
                     /\ made.python_name = n
                     /\ (made.graphql_name = field.alias) <=> field.has_alias
                     /\ (made.graphql_name = "None") <=> ~field.has_alias
                     /\ made.default = "UNSET"
                     /\ made.description = field.description

C9_Witness ==
    /\ Succeeded
    /\ last.model = "Inner"
    /\ last.fields_set = {"f", "g"}
    /\ \E d \in last.cls : d.name = "f" /\ d.kind = "resolver"
    /\ Created("f").field.origin = "user"
    /\ Created("g").field.graphql_name = "gAlias"

RECURSIVE NoModelOutsideLiteral(_)
NoModelOutsideLiteral(t) ==
    /\ t[1] # "model"
    /\ HasArgs(t) => \A i \in 2..Len(t) : NoModelOutsideLiteral(t[i])

====
